---- MODULE Spec2Model ----
(***************************************************************************)
(* A model of cli-bank (src/main.go).  The source holds two programs:     *)
(* the file-backed bank (lines 1-394, an in-memory map saved to db.json)   *)
(* and the ORM-backed bank (lines 396-817, gorm over sqlite).              *)
(*                                                                         *)
(* Spec      the command loop of one running process, in either variant:  *)
(*           main menu, login, session, every ledger operation.            *)
(* SpecProc  the life cycle of the file-backed processes that share        *)
(*           db.json and db.json.lock: loadData, the signal goroutine,     *)
(*           saveData step by step, os.Exit.                               *)
(* SpecSave  one file-backed process and the process started after it:     *)
(*           transferMoney statement by statement beside the signal        *)
(*           goroutine, saveData with storage errors, the next loadData.   *)
(*                                                                         *)
(* Amounts are float64 in the source; the model draws them from positive   *)
(* integers, on which float64 arithmetic is exact.  time.Now() is a        *)
(* strictly increasing clock.                                              *)
(***************************************************************************)
EXTENDS Integers, Sequences, FiniteSets, TLC

VARIABLES
    variant,                \* "file" (lines 1-394) or "orm" (lines 396-817)
    autoIncrement,          \* orm: whether the accounts table was created AUTOINCREMENT
    bank,                   \* file: map[string]*Account
    accounts,               \* orm: the accounts table, ID -> row
    transactions,           \* orm: the transactions table, in insertion (ID) order
    accountSeq,             \* orm: the largest account ID ever handed out
    currentAccount,         \* file: *Account (its key in bank; read only while a
                            \* session runs, when it points into bank); orm: an Account value
    previousLastLogin,      \* time.Time captured by login
    account,                \* login's local `account` while the password loop runs
    incorrectPasswordCount, \* login's local counter
    pc,                     \* where the command loop is: "main", "password", "session"
    clock,                  \* the next value of time.Now()
    out,                    \* the outcome the handler that ran last reported
    journal,                \* history: per username, the cash operations since createAccount
    lockFile,               \* SpecProc: whether db.json.lock exists
    dbFile,                 \* SpecProc: db.json, a sequence of written chunks
    proc,                   \* SpecProc: per process, its goroutines and memory
    lastSave                \* history: the saveData call that returned last, until
                            \* the process started next has loaded or ended

ledgerVars == <<variant, autoIncrement, bank, accounts, transactions, accountSeq,
                currentAccount, previousLastLogin, account, incorrectPasswordCount,
                pc, clock, out, journal>>
procVars == <<lockFile, dbFile, proc, lastSave>>
vars == <<ledgerVars, procVars>>

----------------------------------------------------------------------------
(* Bounds of the model *)

MaxClock == 4        \* time.Now() is called at most MaxClock - 1 times

(* Program constants *)
JoiningBonus == 1000
MaxIncorrect == 3

Usernames == {"alice", "bob"}
FullNames == {"A. Liddell"}
Passwords == {"pw1", "pw2"}      \* what is typed at a password prompt of login
NewPasswords == {"pw1"}          \* what is typed twice at createAccount
\* what readAmount returns: strictly positive; one below and one above the bonus
Amounts == {600, 1200}

ZeroTime == 0
Nil == "nil"

----------------------------------------------------------------------------
(* Helpers *)

RECURSIVE Sum(_)
Sum(s) == IF s = <<>> THEN 0 ELSE Head(s) + Sum(Tail(s))

RECURSIVE Reverse(_)
Reverse(s) == IF s = <<>> THEN <<>> ELSE Append(Reverse(Tail(s)), Head(s))

MaxOf(S) == IF S = {} THEN 0 ELSE CHOOSE x \in S : \A y \in S : y <= x

Remove(f, k) == [x \in (DOMAIN f) \ {k} |-> f[x]]

\* append([]Transaction{t}, list...)
Prepend(t, list) == <<t>> \o list

\* hash: sha256 then base64; a deterministic injective digest, never the secret itself
hash(s) == "sha256:" \o s

----------------------------------------------------------------------------
(* The file-backed variant: pure operations on the value of `bank` *)

\* &Account{Username: username, Balance: 1000}, then FullName and Password
NewAccount(username, fullName, password) ==
    [FullName |-> fullName, Username |-> username, Password |-> hash(password),
     Balance |-> JoiningBonus, LastLogin |-> ZeroTime, Transactions |-> <<>>]

Transaction(now, counterparty, amount, closing, message, type) ==
    [Time |-> now, Counterparty |-> counterparty, Amount |-> amount,
     ClosingBalance |-> closing, Message |-> message, Type |-> type]

\* a createAccount that never finds the username taken
UsernameTaken_never(b, username) == FALSE

\* _, ok := bank[username]
UsernameTaken(b, username) == username \in DOMAIN b

\* bank[username] = account
Insert(b, username, acc) == (username :> acc) @@ b

\* a deposit that records the balance from before the update
Deposit_staleClosing(b, cur, amount, now) ==
    LET b1 == [b EXCEPT ![cur].Balance = @ + amount]
    IN  [b1 EXCEPT ![cur].Transactions =
            Prepend(Transaction(now, "", amount, b[cur].Balance,
                                "credited via cash deposit", "C"), @)]

\* currentAccount.Balance += amount; then the record is prepended
Deposit(b, cur, amount, now) ==
    LET b1 == [b EXCEPT ![cur].Balance = @ + amount]
    IN  [b1 EXCEPT ![cur].Transactions =
            Prepend(Transaction(now, "", amount, b1[cur].Balance,
                                "credited via cash deposit", "C"), @)]

\* a withdrawal that refuses to overdraw
Withdraw_overdraftChecked(b, cur, amount, now) ==
    IF b[cur].Balance < amount THEN b
    ELSE LET b1 == [b EXCEPT ![cur].Balance = @ - amount]
         IN  [b1 EXCEPT ![cur].Transactions =
                 Prepend(Transaction(now, "", amount, b1[cur].Balance,
                                     "debited via cash withdrawal", "D"), @)]

\* a withdrawal that charges every account of the bank
Withdraw_chargesEveryone(b, cur, amount, now) ==
    [u \in DOMAIN b |->
        [b[u] EXCEPT !.Balance = @ - amount,
                     !.Transactions =
                         IF u = cur
                         THEN Prepend(Transaction(now, "", amount, b[u].Balance - amount,
                                                  "debited via cash withdrawal", "D"), @)
                         ELSE @]]

\* currentAccount.Balance -= amount, with no check against the balance
Withdraw(b, cur, amount, now) ==
    LET b1 == [b EXCEPT ![cur].Balance = @ - amount]
    IN  [b1 EXCEPT ![cur].Transactions =
            Prepend(Transaction(now, "", amount, b1[cur].Balance,
                                "debited via cash withdrawal", "D"), @)]

\* a transferMoney without the insufficient-funds check
TransferError_noFundsCheck(b, cur, r, amount) ==
    IF r \notin DOMAIN b THEN "ERROR: receiver not found"
    ELSE IF amount < 0 THEN "ERROR: sending amount should be positive"
    ELSE ""

\* the checks of transferMoney, in the order of the code; "" when all pass
TransferError(b, cur, r, amount) ==
    IF r \notin DOMAIN b THEN "ERROR: receiver not found"
    ELSE IF amount < 0 THEN "ERROR: sending amount should be positive"
    ELSE IF b[cur].Balance < amount THEN "ERROR: insufficient funds"
    ELSE ""

\* the four assignments of transferMoney; cur and r are pointers into the
\* same map, so r = cur aliases one Account
\* currentAccount.Balance -= amount
TransferDebit(b, cur, amount) == [b EXCEPT ![cur].Balance = @ - amount]

\* receiver.Balance += amount
TransferCredit(b, r, amount) == [b EXCEPT ![r].Balance = @ + amount]

\* currentAccount.Transactions = append([]Transaction{{...}}, ...)
TransferDebitRecord(b, cur, r, amount, now) ==
    [b EXCEPT ![cur].Transactions =
        Prepend(Transaction(now, b[r].Username, amount, b[cur].Balance,
                            "transferred to " \o b[r].Username, "D"), @)]

\* receiver.Transactions = append([]Transaction{{...}}, ...)
TransferCreditRecord(b, cur, r, amount, now) ==
    [b EXCEPT ![r].Transactions =
        Prepend(Transaction(now, b[cur].Username, amount, b[r].Balance,
                            "received from " \o b[cur].Username, "C"), @)]

\* the four assignments, in the order of the code
Transfer(b, cur, r, amount, now) ==
    LET b1 == TransferDebit(b, cur, amount)
        b2 == TransferCredit(b1, r, amount)
        b3 == TransferDebitRecord(b2, cur, r, amount, now)
    IN  TransferCreditRecord(b3, cur, r, amount, now)

\* the loop of listTransactions(start, end) over the slice it was given:
\* indexes start..end-1 (end = 0 stands for the length), cut at the length
Listing(list, start, end) ==
    LET l == Len(list)
        e == IF end = 0 THEN l ELSE end
        last == IF e < l THEN e ELSE l
    IN  SubSeq(list, start + 1, last)

\* a password loop that gives up one wrong entry earlier
PasswordStep_twoTolerated(stored, password, count) ==
    IF hash(password) # stored
    THEN IF count < MaxIncorrect - 1 THEN "retry" ELSE "exceeded"
    ELSE "ok"

\* a password loop that gives up one wrong entry later
PasswordStep_fourTolerated(stored, password, count) ==
    IF hash(password) # stored
    THEN IF count <= MaxIncorrect THEN "retry" ELSE "exceeded"
    ELSE "ok"

\* the password loop of login: what one entry does, given the stored digest
PasswordStep(stored, password, count) ==
    IF hash(password) # stored
    THEN IF count < MaxIncorrect THEN "retry" ELSE "exceeded"
    ELSE "ok"

----------------------------------------------------------------------------
(* History kept for the claims: the cash operations applied to an account *)

NewJournal == [ops |-> <<>>, xfer |-> FALSE]
JournalCash(j, u, signed) == [j EXCEPT ![u].ops = Append(@, signed)]
JournalTransfer(j, s, r) == [[j EXCEPT ![s].xfer = TRUE] EXCEPT ![r].xfer = TRUE]

----------------------------------------------------------------------------
(* The file-backed variant: the handlers *)

InitLedger ==
    /\ variant \in {"file", "orm"}
    /\ autoIncrement \in (IF variant = "orm" THEN BOOLEAN ELSE {FALSE})
    /\ bank = << >>
    /\ accounts = << >>
    /\ transactions = << >>
    /\ accountSeq = 0
    /\ currentAccount = IF variant = "file" THEN Nil
                        ELSE [ID |-> 0, FullName |-> "", Username |-> "", Password |-> "",
                              Balance |-> 0, LastLogin |-> ZeroTime]
    /\ previousLastLogin = ZeroTime
    /\ account = Nil
    /\ incorrectPasswordCount = 0
    /\ pc = "main"
    /\ clock = 1
    /\ out = ""
    /\ journal = << >>

Init ==
    /\ InitLedger
    /\ lockFile = FALSE
    /\ dbFile = << >>
    /\ proc = << >>
    /\ lastSave = [done |-> FALSE, clean |-> FALSE, doc |-> << >>]

\* main menu "1": accountLoop -> login, up to the first password prompt
login(username) ==
    /\ variant = "file"
    /\ pc = "main"
    /\ IF username \notin DOMAIN bank
       THEN /\ out' = "ERROR: user not found"
            /\ UNCHANGED <<account, incorrectPasswordCount, pc>>
       ELSE /\ out' = "Enter password: "
            /\ account' = username
            /\ incorrectPasswordCount' = 0
            /\ pc' = "password"
    /\ UNCHANGED <<variant, autoIncrement, bank, accounts, transactions, accountSeq,
                   currentAccount, previousLastLogin, clock, journal, procVars>>

\* one pass of login's password loop, and on a match the rest of login;
\* login's locals (account, incorrectPasswordCount) end with the call
loginPassword(password) ==
    /\ variant = "file"
    /\ pc = "password"
    /\ LET step == PasswordStep(bank[account].Password, password, incorrectPasswordCount)
       IN  IF step = "retry"
           THEN /\ out' = "Incorrect Password"
                /\ incorrectPasswordCount' = incorrectPasswordCount + 1
                /\ UNCHANGED <<bank, currentAccount, previousLastLogin, account,
                               pc, clock>>
           ELSE IF step = "exceeded"
           THEN /\ out' = "ERROR: exceeded maximum number of login attempts"
                /\ pc' = "main"
                /\ account' = Nil
                /\ incorrectPasswordCount' = 0
                /\ UNCHANGED <<bank, currentAccount, previousLastLogin, clock>>
           ELSE /\ clock < MaxClock
                /\ previousLastLogin' = bank[account].LastLogin
                /\ bank' = [bank EXCEPT ![account].LastLogin = clock]
                /\ currentAccount' = account
                /\ out' = "Hi, " \o bank[account].FullName
                /\ pc' = "session"
                /\ clock' = clock + 1
                /\ account' = Nil
                /\ incorrectPasswordCount' = 0
    /\ UNCHANGED <<variant, autoIncrement, accounts, transactions, accountSeq,
                   journal, procVars>>

\* main menu "2"
createAccount(username, fullName, password) ==
    /\ variant = "file"
    /\ pc = "main"
    /\ IF UsernameTaken(bank, username)
       THEN /\ out' = "ERROR: account already taken"
            /\ UNCHANGED <<bank, journal>>
       ELSE /\ out' = "Account created successfully"
            /\ bank' = Insert(bank, username, NewAccount(username, fullName, password))
            /\ journal' = (username :> NewJournal) @@ journal
    /\ UNCHANGED <<variant, autoIncrement, accounts, transactions, accountSeq,
                   currentAccount, previousLastLogin, account, incorrectPasswordCount,
                   pc, clock, procVars>>

\* session menu "1": the account's fields, then listTransactions(0, 5)
checkAccountInfo ==
    /\ variant = "file"
    /\ pc = "session"
    /\ out' = "Last 5 transactions: "
    /\ UNCHANGED <<variant, autoIncrement, bank, accounts, transactions, accountSeq,
                   currentAccount, previousLastLogin, account, incorrectPasswordCount,
                   pc, clock, journal, procVars>>

\* session menu "2": listTransactions(0, 0)
listTransactions ==
    /\ variant = "file"
    /\ pc = "session"
    /\ out' = "all transactions"
    /\ UNCHANGED <<variant, autoIncrement, bank, accounts, transactions, accountSeq,
                   currentAccount, previousLastLogin, account, incorrectPasswordCount,
                   pc, clock, journal, procVars>>

\* session menu "3"
depositCash(amount) ==
    /\ variant = "file"
    /\ pc = "session"
    /\ clock < MaxClock
    /\ bank' = Deposit(bank, currentAccount, amount, clock)
    /\ clock' = clock + 1
    /\ out' = "successfully deposited"
    /\ journal' = JournalCash(journal, currentAccount, amount)
    /\ UNCHANGED <<variant, autoIncrement, accounts, transactions, accountSeq,
                   currentAccount, previousLastLogin, account, incorrectPasswordCount,
                   pc, procVars>>

\* session menu "4"
withdrawCash(amount) ==
    /\ variant = "file"
    /\ pc = "session"
    /\ clock < MaxClock
    /\ bank' = Withdraw(bank, currentAccount, amount, clock)
    /\ clock' = clock + 1
    /\ out' = "successfully withdrawn"
    /\ journal' = JournalCash(journal, currentAccount, 0 - amount)
    /\ UNCHANGED <<variant, autoIncrement, accounts, transactions, accountSeq,
                   currentAccount, previousLastLogin, account, incorrectPasswordCount,
                   pc, procVars>>

\* session menu "5"; the amount is read only once the receiver is found
transferMoney(r, amount) ==
    /\ variant = "file"
    /\ pc = "session"
    /\ LET err == TransferError(bank, currentAccount, r, amount)
       IN  IF err # ""
           THEN /\ out' = err
                /\ UNCHANGED <<bank, clock, journal>>
           ELSE /\ clock < MaxClock
                /\ bank' = Transfer(bank, currentAccount, r, amount, clock)
                /\ clock' = clock + 1
                /\ out' = "successfully sent"
                /\ journal' = JournalTransfer(journal, currentAccount, r)
    /\ UNCHANGED <<variant, autoIncrement, accounts, transactions, accountSeq,
                   currentAccount, previousLastLogin, account, incorrectPasswordCount,
                   pc, procVars>>

\* session menu "6"; the second question is asked only after a yes
deleteAccount(yes1, yes2) ==
    /\ variant = "file"
    /\ pc = "session"
    /\ IF yes1 /\ yes2
       THEN /\ bank' = Remove(bank, currentAccount)
            /\ journal' = Remove(journal, currentAccount)
            /\ out' = "deleted"
            /\ pc' = "main"
       ELSE /\ out' = "kept"
            /\ UNCHANGED <<bank, journal, pc>>
    /\ UNCHANGED <<variant, autoIncrement, accounts, transactions, accountSeq,
                   currentAccount, previousLastLogin, account, incorrectPasswordCount,
                   clock, procVars>>

\* session menu "7"
logout ==
    /\ variant = "file"
    /\ pc = "session"
    /\ out' = "logout"
    /\ pc' = "main"
    /\ UNCHANGED <<variant, autoIncrement, bank, accounts, transactions, accountSeq,
                   currentAccount, previousLastLogin, account, incorrectPasswordCount,
                   clock, journal, procVars>>

NextFile ==
    \/ \E u \in Usernames : login(u)
    \/ \E p \in Passwords : loginPassword(p)
    \/ \E u \in Usernames, f \in FullNames, p \in NewPasswords : createAccount(u, f, p)
    \/ checkAccountInfo
    \/ listTransactions
    \/ \E a \in Amounts : depositCash(a)
    \/ \E a \in Amounts : withdrawCash(a)
    \/ \E r \in Usernames, a \in Amounts : transferMoney(r, a)
    \/ \E y1, y2 \in BOOLEAN : deleteAccount(y1, y2)
    \/ logout


----------------------------------------------------------------------------
(* The ORM-backed variant: the tables and the gorm calls the handlers make *)

\* type Account of the ORM variant (CreatedAt, which gorm fills and no handler
\* reads, is left out)
AccountRow(id, username, fullName, password) ==
    [ID |-> id, FullName |-> fullName, Username |-> username,
     Password |-> hash(password), Balance |-> JoiningBonus, LastLogin |-> ZeroTime]

\* type Transaction of the ORM variant
TransactionRow(id, now, counterparty, amount, closing, message, type, accountID) ==
    [ID |-> id, Time |-> now, Counterparty |-> counterparty, Amount |-> amount,
     ClosingBalance |-> closing, Message |-> message, Type |-> type,
     AccountID |-> accountID]

\* the primary key db.Create gives a new account: with AUTOINCREMENT one more
\* than any key ever used, without it one more than the largest key present
NextAccountID(tbl, seq, autoInc) ==
    IF autoInc THEN seq + 1 ELSE MaxOf(DOMAIN tbl) + 1

\* db.Where("username = ?", username).First(&account)
Found(tbl, username) == \E id \in DOMAIN tbl : tbl[id].Username = username
First(tbl, username) ==
    tbl[CHOOSE id \in DOMAIN tbl :
            /\ tbl[id].Username = username
            /\ \A other \in DOMAIN tbl : tbl[other].Username = username => id <= other]

\* db.Model(Account{}).Select("count(*) > 0").Where("username = ?", username)
UsernameTakenORM(tbl, username) ==
    Cardinality({id \in DOMAIN tbl : tbl[id].Username = username}) > 0

\* db.Save(&row): every column of the row with that primary key is rewritten
Save(tbl, row) ==
    IF row.ID \in DOMAIN tbl THEN [tbl EXCEPT ![row.ID] = row] ELSE (row.ID :> row) @@ tbl

\* tx.Create(&Transaction{...})
CreateTransaction(txs, now, counterparty, amount, closing, message, type, accountID) ==
    Append(txs, TransactionRow(Len(txs) + 1, now, counterparty, amount, closing,
                               message, type, accountID))

\* depositCash's db.Transaction: the new currentAccount and both tables
DepositORM(tbl, txs, cur, amount, now) ==
    LET cur1 == [cur EXCEPT !.Balance = @ + amount]
    IN  [currentAccount |-> cur1,
         accounts |-> Save(tbl, cur1),
         transactions |-> CreateTransaction(txs, now, "", amount, cur1.Balance,
                                            "credited via cash deposit", "C", cur1.ID)]

\* withdrawCash's db.Transaction
WithdrawORM(tbl, txs, cur, amount, now) ==
    LET cur1 == [cur EXCEPT !.Balance = @ - amount]
    IN  [currentAccount |-> cur1,
         accounts |-> Save(tbl, cur1),
         transactions |-> CreateTransaction(txs, now, "", amount, cur1.Balance,
                                            "debited via cash withdrawal", "D", cur1.ID)]

\* the checks of the ORM transferMoney; "" when all pass
TransferErrorORM(tbl, cur, r, amount) ==
    IF ~Found(tbl, r) THEN "ERROR: receiver not found"
    ELSE IF cur.Balance < amount THEN "ERROR: insufficient funds"
    ELSE ""

\* transferMoney's db.Transaction: receiver is a second value read from the
\* table, and the two Saves run in order
TransferORM(tbl, txs, cur, r, amount, now) ==
    LET receiver == First(tbl, r)
        cur1 == [cur EXCEPT !.Balance = @ - amount]
        rec1 == [receiver EXCEPT !.Balance = @ + amount]
        t1 == Save(tbl, cur1)
        t2 == Save(t1, rec1)
        x1 == CreateTransaction(txs, now, rec1.Username, amount, cur1.Balance,
                                "transferred to " \o rec1.Username, "D", cur1.ID)
        x2 == CreateTransaction(x1, now, cur1.Username, amount, rec1.Balance,
                                "received from " \o cur1.Username, "C", rec1.ID)
    IN  [currentAccount |-> cur1, accounts |-> t2, transactions |-> x2]

----------------------------------------------------------------------------
(* The ORM-backed variant: the handlers *)

loginORM(username) ==
    /\ variant = "orm"
    /\ pc = "main"
    /\ IF ~Found(accounts, username)
       THEN /\ out' = "ERROR: user not found"
            /\ UNCHANGED <<account, incorrectPasswordCount, pc>>
       ELSE /\ out' = "Enter password: "
            /\ account' = First(accounts, username)
            /\ incorrectPasswordCount' = 0
            /\ pc' = "password"
    /\ UNCHANGED <<variant, autoIncrement, bank, accounts, transactions, accountSeq,
                   currentAccount, previousLastLogin, clock, journal, procVars>>

loginPasswordORM(password) ==
    /\ variant = "orm"
    /\ pc = "password"
    /\ LET step == PasswordStep(account.Password, password, incorrectPasswordCount)
       IN  IF step = "retry"
           THEN /\ out' = "Incorrect Password"
                /\ incorrectPasswordCount' = incorrectPasswordCount + 1
                /\ UNCHANGED <<accounts, currentAccount, previousLastLogin, account,
                               pc, clock>>
           ELSE IF step = "exceeded"
           THEN /\ out' = "ERROR: exceeded maximum number of login attempts"
                /\ pc' = "main"
                /\ account' = Nil
                /\ incorrectPasswordCount' = 0
                /\ UNCHANGED <<accounts, currentAccount, previousLastLogin, clock>>
           ELSE /\ clock < MaxClock
                /\ previousLastLogin' = account.LastLogin
                /\ accounts' = Save(accounts, [account EXCEPT !.LastLogin = clock])
                /\ currentAccount' = [account EXCEPT !.LastLogin = clock]
                /\ out' = "Hi, " \o account.FullName
                /\ pc' = "session"
                /\ clock' = clock + 1
                /\ account' = Nil
                /\ incorrectPasswordCount' = 0
    /\ UNCHANGED <<variant, autoIncrement, bank, transactions, accountSeq,
                   journal, procVars>>

createAccountORM(username, fullName, password) ==
    /\ variant = "orm"
    /\ pc = "main"
    /\ IF UsernameTakenORM(accounts, username)
       THEN /\ out' = "ERROR: account already taken"
            /\ UNCHANGED <<accounts, accountSeq, journal>>
       ELSE /\ out' = "Account created successfully"
            /\ LET id == NextAccountID(accounts, accountSeq, autoIncrement)
               IN  /\ accounts' = (id :> AccountRow(id, username, fullName, password))
                                  @@ accounts
                   /\ accountSeq' = IF id > accountSeq THEN id ELSE accountSeq
            /\ journal' = (username :> NewJournal) @@ journal
    /\ UNCHANGED <<variant, autoIncrement, bank, transactions,
                   currentAccount, previousLastLogin, account, incorrectPasswordCount,
                   pc, clock, procVars>>

\* session menu "1"
checkAccountInfoORM ==
    /\ variant = "orm"
    /\ pc = "session"
    /\ out' = "Last 5 transactions: "
    /\ UNCHANGED <<variant, autoIncrement, bank, accounts, transactions, accountSeq,
                   currentAccount, previousLastLogin, account, incorrectPasswordCount,
                   pc, clock, journal, procVars>>

\* session menu "2"
listTransactionsORM ==
    /\ variant = "orm"
    /\ pc = "session"
    /\ out' = "all transactions"
    /\ UNCHANGED <<variant, autoIncrement, bank, accounts, transactions, accountSeq,
                   currentAccount, previousLastLogin, account, incorrectPasswordCount,
                   pc, clock, journal, procVars>>

depositCashORM(amount) ==
    /\ variant = "orm"
    /\ pc = "session"
    /\ clock < MaxClock
    /\ LET r == DepositORM(accounts, transactions, currentAccount, amount, clock)
       IN  /\ currentAccount' = r.currentAccount
           /\ accounts' = r.accounts
           /\ transactions' = r.transactions
    /\ clock' = clock + 1
    /\ out' = "successfully deposited"
    /\ journal' = JournalCash(journal, currentAccount.Username, amount)
    /\ UNCHANGED <<variant, autoIncrement, bank, accountSeq,
                   previousLastLogin, account, incorrectPasswordCount, pc, procVars>>

withdrawCashORM(amount) ==
    /\ variant = "orm"
    /\ pc = "session"
    /\ clock < MaxClock
    /\ LET r == WithdrawORM(accounts, transactions, currentAccount, amount, clock)
       IN  /\ currentAccount' = r.currentAccount
           /\ accounts' = r.accounts
           /\ transactions' = r.transactions
    /\ clock' = clock + 1
    /\ out' = "successfully withdrawn"
    /\ journal' = JournalCash(journal, currentAccount.Username, 0 - amount)
    /\ UNCHANGED <<variant, autoIncrement, bank, accountSeq,
                   previousLastLogin, account, incorrectPasswordCount, pc, procVars>>

transferMoneyORM(r, amount) ==
    /\ variant = "orm"
    /\ pc = "session"
    /\ LET err == TransferErrorORM(accounts, currentAccount, r, amount)
       IN  IF err # ""
           THEN /\ out' = err
                /\ UNCHANGED <<accounts, transactions, currentAccount, clock, journal>>
           ELSE /\ clock < MaxClock
                /\ LET t == TransferORM(accounts, transactions, currentAccount, r,
                                        amount, clock)
                   IN  /\ currentAccount' = t.currentAccount
                       /\ accounts' = t.accounts
                       /\ transactions' = t.transactions
                /\ clock' = clock + 1
                /\ out' = "successfully sent"
                /\ journal' = JournalTransfer(journal, currentAccount.Username, r)
    /\ UNCHANGED <<variant, autoIncrement, bank, accountSeq,
                   previousLastLogin, account, incorrectPasswordCount, pc, procVars>>

\* db.Delete(&currentAccount): the row of the accounts table only
deleteAccountORM(yes1, yes2) ==
    /\ variant = "orm"
    /\ pc = "session"
    /\ IF yes1 /\ yes2
       THEN /\ accounts' = Remove(accounts, currentAccount.ID)
            /\ journal' = Remove(journal, currentAccount.Username)
            /\ out' = "deleted"
            /\ pc' = "main"
       ELSE /\ out' = "kept"
            /\ UNCHANGED <<accounts, journal, pc>>
    /\ UNCHANGED <<variant, autoIncrement, bank, transactions, accountSeq,
                   currentAccount, previousLastLogin, account, incorrectPasswordCount,
                   clock, procVars>>

logoutORM ==
    /\ variant = "orm"
    /\ pc = "session"
    /\ out' = "logout"
    /\ pc' = "main"
    /\ UNCHANGED <<variant, autoIncrement, bank, accounts, transactions, accountSeq,
                   currentAccount, previousLastLogin, account, incorrectPasswordCount,
                   clock, journal, procVars>>

NextORM ==
    \/ \E u \in Usernames : loginORM(u)
    \/ \E p \in Passwords : loginPasswordORM(p)
    \/ \E u \in Usernames, f \in FullNames, p \in NewPasswords : createAccountORM(u, f, p)
    \/ checkAccountInfoORM
    \/ listTransactionsORM
    \/ \E a \in Amounts : depositCashORM(a)
    \/ \E a \in Amounts : withdrawCashORM(a)
    \/ \E r \in Usernames, a \in Amounts : transferMoneyORM(r, a)
    \/ \E y1, y2 \in BOOLEAN : deleteAccountORM(y1, y2)
    \/ logoutORM

Next == NextFile \/ NextORM

Spec == Init /\ [][Next]_vars

----------------------------------------------------------------------------
(* The store as either variant presents it: which usernames exist, each    *)
(* account's stored balance and its history, most recent record first      *)

ExistsIn(bk, tbl, u) ==
    IF variant = "file" THEN u \in DOMAIN bk ELSE Found(tbl, u)

BalanceIn(bk, tbl, u) ==
    IF variant = "file" THEN bk[u].Balance ELSE First(tbl, u).Balance

RowsOf(txs, id) ==
    LET Mine(row) == row.AccountID = id IN SelectSeq(txs, Mine)

HistoryIn(bk, tbl, txs, u) ==
    IF variant = "file" THEN bk[u].Transactions
    ELSE LET rows == Reverse(RowsOf(txs, First(tbl, u).ID))
         IN  [i \in 1..Len(rows) |->
                 Transaction(rows[i].Time, rows[i].Counterparty, rows[i].Amount,
                             rows[i].ClosingBalance, rows[i].Message, rows[i].Type)]

Exists(u) == ExistsIn(bank, accounts, u)
Balance(u) == BalanceIn(bank, accounts, u)
History(u) == HistoryIn(bank, accounts, transactions, u)

\* the account the session is bound to, and the balance the session reads
SessionUser == IF variant = "file" THEN currentAccount ELSE currentAccount.Username
SessionBalance ==
    IF variant = "file" THEN bank[currentAccount].Balance ELSE currentAccount.Balance

\* the slice listTransactions walks: the account's own list (file), the rows
\* db.Where("account_id = ?", currentAccount.ID).Find returns, which without
\* an ORDER BY sqlite reads off the table in primary-key order (orm)
SessionTransactions ==
    IF variant = "file" THEN bank[currentAccount].Transactions
    ELSE RowsOf(transactions, currentAccount.ID)

\* what checkAccountInfo and "List all transactions" print, record by record
Printed(start, end) ==
    LET shown == Listing(SessionTransactions, start, end)
    IN  [i \in 1..Len(shown) |->
            Transaction(shown[i].Time, shown[i].Counterparty, shown[i].Amount,
                        shown[i].ClosingBalance, shown[i].Message, shown[i].Type)]

LastLoginIn(bk, tbl, u) ==
    IF variant = "file" THEN bk[u].LastLogin ELSE First(tbl, u).LastLogin

RECURSIVE SumBalances(_, _)
SumBalances(f, keys) ==
    IF keys = {} THEN 0
    ELSE LET k == CHOOSE x \in keys : TRUE
         IN  f[k].Balance + SumBalances(f, keys \ {k})

\* the sum of the balances of all accounts of the store
TotalIn(bk, tbl) ==
    IF variant = "file" THEN SumBalances(bk, DOMAIN bk) ELSE SumBalances(tbl, DOMAIN tbl)

storeVars == <<bank, accounts, transactions>>

\* a step of the named handler, in whichever variant runs
DepositStep(a) == depositCash(a) \/ depositCashORM(a)
WithdrawStep(a) == withdrawCash(a) \/ withdrawCashORM(a)
TransferStep(r, a) == transferMoney(r, a) \/ transferMoneyORM(r, a)
CreateStep(u, f, p) == createAccount(u, f, p) \/ createAccountORM(u, f, p)
PasswordEntry(p) == loginPassword(p) \/ loginPasswordORM(p)
LoginStep(u) == login(u) \/ loginORM(u)
DeleteStep(y1, y2) == deleteAccount(y1, y2) \/ deleteAccountORM(y1, y2)
LogoutStep == logout \/ logoutORM
CheckAccountInfoStep == checkAccountInfo \/ checkAccountInfoORM
ListTransactionsStep == listTransactions \/ listTransactionsORM
StoredDigest == IF variant = "file" THEN bank[account].Password ELSE account.Password

----------------------------------------------------------------------------
(* C1: an account touched only by deposits and withdrawals since its       *)
(* creation has balance 1000 + deposits - withdrawals and exactly one      *)
(* transaction record per operation.                                       *)
C1_CashLedger ==
    \A u \in Usernames :
        (Exists(u) /\ ~journal[u].xfer) =>
            /\ Balance(u) = JoiningBonus + Sum(journal[u].ops)
            /\ Len(History(u)) = Len(journal[u].ops)

\* the same, wherever account keys are never handed out twice
CashLedgerWithoutKeyReuse ==
    (variant = "file" \/ autoIncrement) => C1_CashLedger

(* C2: a transfer that validation rejects (receiver unknown, amount not    *)
(* strictly positive, or balance below the amount) is reported as an error *)
(* and changes no balance and no transaction list.                         *)
C2_RejectedTransferChangesNothing ==
    [][\A r \in Usernames, a \in Amounts :
          (TransferStep(r, a) /\ (~Exists(r) \/ a <= 0 \/ SessionBalance < a)) =>
              /\ out' \in {"ERROR: receiver not found",
                           "ERROR: sending amount should be positive",
                           "ERROR: insufficient funds"}
              /\ UNCHANGED <<storeVars, currentAccount>>]_vars

C2_Witness ==
    /\ pc = "session"
    /\ out = "ERROR: insufficient funds"
    /\ \E r \in Usernames : r # SessionUser /\ Exists(r)

(* C3: a successful transfer of a from S to R takes a from S's balance,    *)
(* adds a to R's balance, and puts exactly one debit at the head of S's    *)
(* history and one credit at the head of R's history, with the same time   *)
(* and amount and each side's new balance as closingBalance.               *)
C3_TransferEffect ==
    [][\A r \in Usernames, a \in Amounts :
          (TransferStep(r, a) /\ out' = "successfully sent") =>
              LET S == SessionUser
                  balS == BalanceIn(bank', accounts', S)
                  balR == BalanceIn(bank', accounts', r)
                  hisS == HistoryIn(bank', accounts', transactions', S)
                  hisR == HistoryIn(bank', accounts', transactions', r)
              IN  /\ balS = Balance(S) - a
                  /\ balR = Balance(r) + a
                  /\ hisS = Prepend(Transaction(clock, r, a, balS,
                                                "transferred to " \o r, "D"), History(S))
                  /\ hisR = Prepend(Transaction(clock, S, a, balR,
                                                "received from " \o S, "C"), History(r))]_vars

\* the same for a receiver other than the sender
TransferEffectBetweenTwo ==
    [][\A r \in Usernames, a \in Amounts :
          (TransferStep(r, a) /\ out' = "successfully sent" /\ r # SessionUser) =>
              LET S == SessionUser
                  balS == BalanceIn(bank', accounts', S)
                  balR == BalanceIn(bank', accounts', r)
                  hisS == HistoryIn(bank', accounts', transactions', S)
                  hisR == HistoryIn(bank', accounts', transactions', r)
              IN  /\ balS = Balance(S) - a
                  /\ balR = Balance(r) + a
                  /\ hisS = Prepend(Transaction(clock, r, a, balS,
                                                "transferred to " \o r, "D"), History(S))
                  /\ hisR = Prepend(Transaction(clock, S, a, balR,
                                                "received from " \o S, "C"), History(r))]_vars

(* C4: every account's balance equals the closingBalance of the first     *)
(* record of its transaction list, and 0 when the list is empty.           *)
C4_BalanceIsHeadClosingOrZero ==
    variant = "file" =>
        \A u \in DOMAIN bank :
            bank[u].Balance = IF bank[u].Transactions = <<>> THEN 0
                              ELSE Head(bank[u].Transactions).ClosingBalance

(* C4 as amended: every account's balance equals the closingBalance of the *)
(* first record of its transaction list, and the joining bonus (1000) when *)
(* the list is empty.                                                      *)
C4_BalanceIsHeadClosingOrBonus ==
    variant = "file" =>
        \A u \in DOMAIN bank :
            bank[u].Balance = IF bank[u].Transactions = <<>> THEN JoiningBonus
                              ELSE Head(bank[u].Transactions).ClosingBalance

C4_Witness ==
    /\ variant = "file"
    /\ \E u \in DOMAIN bank : bank[u].Transactions = <<>>
    /\ \E u \in DOMAIN bank :
          /\ Len(bank[u].Transactions) >= 2
          /\ bank[u].Balance # JoiningBonus
          /\ bank[u].Balance = Head(bank[u].Transactions).ClosingBalance

(* C5: a transfer whose receiver is the active account's own username is   *)
(* rejected and leaves the account's balance, in memory and in the store,  *)
(* and its transaction list unchanged.                                     *)
C5_SelfTransferRejected ==
    [][\A a \in Amounts :
          (pc = "session" /\ TransferStep(SessionUser, a)) =>
              /\ out' # "successfully sent"
              /\ UNCHANGED <<storeVars, currentAccount>>]_vars

(* C6: in one login, a wrong password is answered by another prompt while  *)
(* fewer than 3 wrong entries came before it (so exactly 3 are tolerated); *)
(* the 4th wrong entry ends the login with the exceeded-attempts error,    *)
(* binds no session and updates no lastLogin.                              *)
C6_ThreeWrongTolerated ==
    /\ [](incorrectPasswordCount \in 0..MaxIncorrect)
    /\ [][\A p \in Passwords :
            (pc = "password" /\ PasswordEntry(p) /\ hash(p) # StoredDigest) =>
                IF incorrectPasswordCount < 3
                THEN /\ pc' = "password"
                     /\ incorrectPasswordCount' = incorrectPasswordCount + 1
                     /\ out' = "Incorrect Password"
                     /\ UNCHANGED <<storeVars, currentAccount, previousLastLogin>>
                ELSE /\ pc' = "main"
                     /\ out' = "ERROR: exceeded maximum number of login attempts"
                     /\ UNCHANGED <<storeVars, currentAccount, previousLastLogin>>]_vars

C6_Witness ==
    /\ pc = "main"
    /\ out = "ERROR: exceeded maximum number of login attempts"

(* C7: once 3 wrong passwords have been entered in a login, no further     *)
(* password entry of that login authenticates the session.                 *)
C7_NoAuthAfterThreeWrong ==
    [][(pc = "password" /\ incorrectPasswordCount >= 3) => pc' # "session"]_vars

(* C7 as amended: the session is authenticated only by a correct password  *)
(* entered within at most 4 password attempts of one login, that is after  *)
(* at most 3 wrong entries; the 4th attempt, made after 3 wrong entries,   *)
(* can still authenticate, and a login is over once it has failed.         *)
C7_AuthWithinFourAttempts ==
    [][/\ (pc' = "session" /\ pc # "session") =>
            /\ pc = "password"
            /\ incorrectPasswordCount + 1 <= 4
            /\ \E p \in Passwords : PasswordEntry(p) /\ hash(p) = StoredDigest
       /\ (pc = "password" /\ pc' = "main") =>
            /\ incorrectPasswordCount = 3
            /\ \E p \in Passwords : PasswordEntry(p) /\ hash(p) # StoredDigest]_vars

\* three wrong entries made, and the login still prompts for a 4th attempt
C7_Witness ==
    /\ pc = "password"
    /\ incorrectPasswordCount = 3
    /\ out = "Incorrect Password"

(* C8: createAccount with a username already in the store is rejected      *)
(* whatever full name and password are offered, and leaves the store as it *)
(* was; no two accounts share a username.                                  *)
UniqueUsernames ==
    /\ \A u \in DOMAIN bank : bank[u].Username = u
    /\ \A i, j \in DOMAIN accounts :
          accounts[i].Username = accounts[j].Username => i = j

C8_DuplicateUsernameRejected ==
    /\ []UniqueUsernames
    /\ [][\A u \in Usernames, f \in FullNames, p \in Passwords :
            (CreateStep(u, f, p) /\ Exists(u)) =>
                /\ out' = "ERROR: account already taken"
                /\ UNCHANGED <<storeVars, accountSeq, currentAccount>>]_vars

C8_Witness ==
    /\ out = "ERROR: account already taken"
    /\ \E u \in Usernames : Exists(u) /\ Balance(u) # JoiningBonus

(* C9: a withdrawal of any strictly positive amount succeeds, also above   *)
(* the balance: the balance becomes balance - amount and one debit with    *)
(* that closingBalance is added; a transfer from an account whose balance  *)
(* is below the amount is rejected.                                        *)
C9_WithdrawOverdrawsTransferDoesNot ==
    [][/\ \A a \in Amounts :
            (variant = "file" /\ pc = "session" /\ withdrawCash(a)) =>
                LET S == currentAccount IN
                /\ a > 0
                /\ out' = "successfully withdrawn"
                /\ bank'[S].Balance = bank[S].Balance - a
                /\ bank'[S].Transactions =
                       Prepend(Transaction(clock, "", a, bank[S].Balance - a,
                                           "debited via cash withdrawal", "D"),
                               bank[S].Transactions)
       /\ \A r \in Usernames, a \in Amounts :
            (variant = "file" /\ pc = "session" /\ transferMoney(r, a)
                /\ bank[currentAccount].Balance < a) =>
                /\ out' \in {"ERROR: insufficient funds", "ERROR: receiver not found"}
                /\ bank' = bank]_vars

C9_Witness ==
    /\ variant = "file"
    /\ pc = "session"
    /\ out = "ERROR: insufficient funds"
    /\ bank[currentAccount].Balance < 0
    /\ Head(bank[currentAccount].Transactions).Type = "D"
    /\ Head(bank[currentAccount].Transactions).ClosingBalance < 0

(* C16: deleteAccount removes the active account only after two yes       *)
(* answers; otherwise the store is unchanged and the session goes on.      *)
(* After a confirmed delete the account and all of its transaction records *)
(* are gone from the store and the session has ended, and an account       *)
(* created later never comes with transaction records.                     *)
C16_DeleteRemovesAccountAndHistory ==
    [][/\ \A y1, y2 \in BOOLEAN :
            (pc = "session" /\ DeleteStep(y1, y2)) =>
                IF y1 /\ y2
                THEN /\ ~ExistsIn(bank', accounts', SessionUser)
                     /\ variant = "orm" =>
                            RowsOf(transactions', currentAccount.ID) = <<>>
                     /\ pc' = "main"
                ELSE /\ UNCHANGED <<storeVars, currentAccount>>
                     /\ pc' = "session"
       /\ \A u \in Usernames, f \in FullNames, p \in NewPasswords :
            (CreateStep(u, f, p) /\ ~Exists(u)) =>
                HistoryIn(bank', accounts', transactions', u) = <<>>]_vars

\* the same in the file-backed program, where the records live in the Account
DeleteRemovesAccountFile ==
    [][variant = "file" =>
          /\ \A y1, y2 \in BOOLEAN :
                (pc = "session" /\ deleteAccount(y1, y2)) =>
                    IF y1 /\ y2
                    THEN /\ bank' = Remove(bank, currentAccount)
                         /\ pc' = "main"
                    ELSE /\ UNCHANGED <<storeVars, currentAccount>>
                         /\ pc' = "session"
          /\ \A u \in Usernames, f \in FullNames, p \in NewPasswords :
                (createAccount(u, f, p) /\ ~Exists(u)) =>
                    bank'[u].Transactions = <<>>]_vars

(* C17: the history is kept and listed most recent first: after a deposit, *)
(* a withdrawal or a successful transfer the record it made is the first   *)
(* one listed, and the "Last 5 transactions" of checkAccountInfo are the   *)
(* up-to-5 newest records of the active account, newest first.             *)
NewestFirst(list) ==
    \A i, j \in 1..Len(list) : i < j => list[i].Time >= list[j].Time

C17_ListedMostRecentFirst ==
    [][/\ (pc = "session" /\ pc' = "session"
             /\ (\/ \E a \in Amounts : DepositStep(a) \/ WithdrawStep(a)
                 \/ \E r \in Usernames, a \in Amounts :
                        TransferStep(r, a) /\ out' = "successfully sent")) =>
            /\ Printed(0, 0)' # <<>>
            /\ Printed(0, 0)'[1].Time = clock
            /\ NewestFirst(Printed(0, 0)')
       /\ (pc = "session" /\ CheckAccountInfoStep) =>
            LET all == Printed(0, 0)
                shown == Printed(0, 5)
            IN  /\ Len(shown) = (IF Len(all) < 5 THEN Len(all) ELSE 5)
                /\ NewestFirst(shown)
                /\ \A k \in 1..Len(all) : \A i \in 1..Len(shown) :
                       all[k].Time > shown[i].Time =>
                           \E j \in 1..Len(shown) : shown[j] = all[k]]_vars

\* the same in the file-backed program
ListedMostRecentFirstFile ==
    [][variant = "file" =>
          /\ (pc = "session" /\ pc' = "session"
                /\ (\/ \E a \in Amounts : depositCash(a) \/ withdrawCash(a)
                    \/ \E r \in Usernames, a \in Amounts :
                           transferMoney(r, a) /\ out' = "successfully sent")) =>
               /\ Printed(0, 0)' # <<>>
               /\ Printed(0, 0)'[1].Time = clock
               /\ NewestFirst(Printed(0, 0)')
          /\ (pc = "session" /\ checkAccountInfo) =>
               /\ Printed(0, 5) = SubSeq(Printed(0, 0), 1,
                                         IF Len(Printed(0, 0)) < 5
                                         THEN Len(Printed(0, 0)) ELSE 5)
               /\ NewestFirst(Printed(0, 5))]_vars

(* C19: balances and transaction lists change only by ledger operations of *)
(* a session, and only for the accounts the operation names: a deposit or  *)
(* a withdrawal changes the active account only, a transfer the active     *)
(* account and the receiver only; a failed login, a logout and a rejected  *)
(* createAccount change no balance, no transaction list and no lastLogin.  *)
C19_OnlyNamedAccountsChange ==
    [][/\ \A u \in Usernames :
            (/\ Exists(u) /\ ExistsIn(bank', accounts', u)
             /\ \/ BalanceIn(bank', accounts', u) # Balance(u)
                \/ HistoryIn(bank', accounts', transactions', u) # History(u)) =>
                /\ pc = "session"
                /\ \/ /\ u = SessionUser
                      /\ \E a \in Amounts : DepositStep(a) \/ WithdrawStep(a)
                   \/ \E r \in Usernames, a \in Amounts :
                          /\ TransferStep(r, a)
                          /\ out' = "successfully sent"
                          /\ u \in {SessionUser, r}
       /\ (\/ \E u \in Usernames : LoginStep(u) /\ out' = "ERROR: user not found"
           \/ \E p \in Passwords :
                  PasswordEntry(p) /\ out' \in {"Incorrect Password",
                      "ERROR: exceeded maximum number of login attempts"}
           \/ LogoutStep
           \/ \E u \in Usernames, f \in FullNames, p \in NewPasswords :
                  CreateStep(u, f, p) /\ out' = "ERROR: account already taken") =>
            /\ \A u \in Usernames : Exists(u) <=> ExistsIn(bank', accounts', u)
            /\ \A u \in Usernames : Exists(u) =>
                  /\ BalanceIn(bank', accounts', u) = Balance(u)
                  /\ HistoryIn(bank', accounts', transactions', u) = History(u)
                  /\ LastLoginIn(bank', accounts', u) = LastLoginIn(bank, accounts, u)]_vars

\* a withdrawal was made in a session while another account stood by, and a
\* login on a second account then failed
C19_Witness ==
    /\ pc = "main"
    /\ out = "ERROR: exceeded maximum number of login attempts"
    /\ \E u, v \in Usernames :
          /\ u # v /\ Exists(u) /\ Exists(v)
          /\ Balance(u) = JoiningBonus /\ History(u) = <<>>
          /\ History(v) # <<>> /\ Head(History(v)).Type = "D"

(* C20: a successful transfer, to any receiver present in the store,       *)
(* leaves the sum of all balances unchanged and the session's balance      *)
(* equal to the stored balance of its account; the sum changes only by     *)
(* createAccount (+1000), a deposit (+amount), a withdrawal (-amount) and  *)
(* deleteAccount (-the balance of the deleted account).                    *)
C20_MoneyConservation ==
    [][/\ \A r \in Usernames, a \in Amounts :
            (pc = "session" /\ TransferStep(r, a) /\ out' = "successfully sent") =>
                /\ TotalIn(bank', accounts') = TotalIn(bank, accounts)
                /\ SessionBalance' = BalanceIn(bank', accounts', SessionUser)
       /\ TotalIn(bank', accounts') # TotalIn(bank, accounts) =>
            \/ \E u \in Usernames, f \in FullNames, p \in NewPasswords :
                   /\ CreateStep(u, f, p)
                   /\ TotalIn(bank', accounts') = TotalIn(bank, accounts) + JoiningBonus
            \/ \E a \in Amounts :
                   /\ pc = "session" /\ DepositStep(a)
                   /\ TotalIn(bank', accounts') = TotalIn(bank, accounts) + a
            \/ \E a \in Amounts :
                   /\ pc = "session" /\ WithdrawStep(a)
                   /\ TotalIn(bank', accounts') = TotalIn(bank, accounts) - a
            \/ /\ pc = "session" /\ DeleteStep(TRUE, TRUE)
               /\ TotalIn(bank', accounts') =
                      TotalIn(bank, accounts) - Balance(SessionUser)]_vars

\* the same in the file-backed program, where the session and the store share
\* one Account
MoneyConservationFile ==
    [][variant = "file" =>
          /\ \A r \in Usernames, a \in Amounts :
                (pc = "session" /\ transferMoney(r, a) /\ out' = "successfully sent") =>
                    TotalIn(bank', accounts') = TotalIn(bank, accounts)
          /\ TotalIn(bank', accounts') # TotalIn(bank, accounts) =>
                \/ \E u \in Usernames, f \in FullNames, p \in NewPasswords :
                       /\ createAccount(u, f, p)
                       /\ TotalIn(bank', accounts') = TotalIn(bank, accounts) + JoiningBonus
                \/ \E a \in Amounts :
                       /\ pc = "session" /\ depositCash(a)
                       /\ TotalIn(bank', accounts') = TotalIn(bank, accounts) + a
                \/ \E a \in Amounts :
                       /\ pc = "session" /\ withdrawCash(a)
                       /\ TotalIn(bank', accounts') = TotalIn(bank, accounts) - a
                \/ /\ pc = "session" /\ deleteAccount(TRUE, TRUE)
                   /\ TotalIn(bank', accounts') =
                          TotalIn(bank, accounts) - bank[currentAccount].Balance]_vars

----------------------------------------------------------------------------
(* SpecProc: the processes of the file-backed program that share db.json   *)
(* and db.json.lock.  Each process has the main goroutine and the signal   *)
(* goroutine of main(); saveData runs one system call per step, in         *)
(* whichever goroutine called it.  db.json is a sequence of blocks: one    *)
(* Write of a marshalled store fills one block.                            *)

Procs == {"p1", "p2"}
Goroutines == {"main", "sig"}
ProcUsernames == {"alice"}
UsernameOrder == <<"alice", "bob">>

\* a block of db.json that was never written
Hole == [hole |-> TRUE, doc |-> <<>>]

\* json.MarshalIndent(bank): the object's members, keys in sorted order
Marshal(b) ==
    LET Present(u) == u \in DOMAIN b
        keys == SelectSeq(UsernameOrder, Present)
    IN  [i \in 1..Len(keys) |-> [key |-> keys[i], value |-> b[keys[i]]]]

\* the map a marshalled object decodes to
DecodeDoc(doc) ==
    [u \in {doc[i].key : i \in 1..Len(doc)} |->
        (CHOOSE m \in {doc[i] : i \in 1..Len(doc)} : m.key = u).value]

\* json.Decoder.Decode(&bank) on an empty map: the first value of the stream;
\* on an error (empty file, a hole) the map stays empty
Decode(content) ==
    IF content = <<>> \/ content[1].hole THEN << >>
    ELSE DecodeDoc(content[1].doc)

\* db.Write(data) at the handle's offset
WriteAt(content, offset, data) ==
    [i \in 1..(IF Len(content) > offset + 1 THEN Len(content) ELSE offset + 1) |->
        IF i = offset + 1 THEN [hole |-> FALSE, doc |-> data]
        ELSE IF i <= Len(content) THEN content[i] ELSE Hole]

\* no saveData call has returned since the last process loaded or ended
NoSave == [done |-> FALSE, clean |-> FALSE, doc |-> << >>]

\* the locals of a transferMoney call
NoXfer == [receiver |-> Nil, amount |-> 0, currentTime |-> ZeroTime]

\* a process that is not running: nothing of it is left but its exit status.
\* failed and wrote are history: whether a storage call of the goroutine's
\* saveData returned an error, and whether its db.Write succeeded
ProcOff(status) ==
    [pc |-> [main |-> "off", sig |-> "off"], bank |-> << >>, currentAccount |-> Nil,
     xfer |-> NoXfer, open |-> FALSE, offset |-> 0,
     data |-> [main |-> <<>>, sig |-> <<>>],
     failed |-> [main |-> FALSE, sig |-> FALSE],
     wrote |-> [main |-> FALSE, sig |-> FALSE], exit |-> status]

InitProc ==
    /\ InitLedger
    /\ variant = "file"
    /\ lockFile = FALSE
    /\ dbFile = << >>
    /\ proc = [i \in Procs |-> ProcOff("none")]
    /\ lastSave = NoSave

Alive(i) == proc[i].pc.main # "off"

\* goroutine g of process i has called saveData and the process has not ended
InSaveData(i, g) ==
    proc[i].pc[g] \in {"marshal", "truncate", "seek", "write", "close", "remove", "exit"}

ledgerVarsButClock == <<variant, autoIncrement, bank, accounts, transactions, accountSeq,
                        currentAccount, previousLastLogin, account,
                        incorrectPasswordCount, pc, out, journal>>

\* loadData, first half: os.OpenFile("db.json.lock", O_CREATE|O_EXCL)
Start(i) ==
    /\ ~Alive(i)
    /\ IF lockFile
       THEN /\ proc' = [proc EXCEPT ![i] = ProcOff("panic: database lock present")]
            /\ UNCHANGED lockFile
       ELSE /\ lockFile' = TRUE
            /\ proc' = [proc EXCEPT ![i] = [ProcOff("none") EXCEPT !.pc.main = "load"]]
    /\ UNCHANGED <<dbFile, lastSave, ledgerVars>>

\* loadData, second half, then signal.Notify and the goroutine of main()
Load(i) ==
    /\ proc[i].pc.main = "load"
    /\ proc' = [proc EXCEPT ![i].bank = Decode(dbFile),
                            ![i].open = TRUE,
                            ![i].offset = Len(dbFile),
                            ![i].pc = [main |-> "running", sig |-> "wait"]]
    /\ lastSave' = NoSave
    /\ UNCHANGED <<lockFile, dbFile, ledgerVars>>

\* SIGINT or SIGTERM before signal.Notify: the default action ends the process
SignalBeforeNotify(i) ==
    /\ proc[i].pc.main = "load"
    /\ proc' = [proc EXCEPT ![i] = ProcOff("killed")]
    /\ lastSave' = NoSave
    /\ UNCHANGED <<lockFile, dbFile, ledgerVars>>

\* main menu "2" in the command loop of process i
ProcCreateAccount(i, username) ==
    /\ proc[i].pc.main = "running"
    /\ ~UsernameTaken(proc[i].bank, username)
    /\ proc' = [proc EXCEPT ![i].bank =
                   Insert(@, username, NewAccount(username, "A. Liddell", "pw1"))]
    /\ UNCHANGED <<lockFile, dbFile, lastSave, ledgerVars>>

\* bank[username] = account while the signal goroutine ranges over the map in
\* json.MarshalIndent: the runtime may end the process with "fatal error:
\* concurrent map iteration and map write"
ProcCreateAccountFault(i, username) ==
    /\ proc[i].pc.main = "running"
    /\ proc[i].pc.sig = "marshal"
    /\ ~UsernameTaken(proc[i].bank, username)
    /\ proc' = [proc EXCEPT ![i] =
                   ProcOff("fatal error: concurrent map iteration and map write")]
    /\ UNCHANGED <<lockFile, dbFile, lastSave, ledgerVars>>

\* main menu "1" with the right password: login binds the session and stamps
\* LastLogin (previousLastLogin is only printed and is left out)
ProcLogin(i, username) ==
    /\ proc[i].pc.main = "running"
    /\ username \in DOMAIN proc[i].bank
    /\ clock < MaxClock
    /\ proc' = [proc EXCEPT ![i].bank[username].LastLogin = clock,
                            ![i].currentAccount = username,
                            ![i].pc.main = "session"]
    /\ clock' = clock + 1
    /\ UNCHANGED <<lockFile, dbFile, lastSave, ledgerVarsButClock>>

\* session menu "7"
ProcLogout(i) ==
    /\ proc[i].pc.main = "session"
    /\ proc' = [proc EXCEPT ![i].pc.main = "running"]
    /\ UNCHANGED <<lockFile, dbFile, lastSave, ledgerVars>>

\* session menu "5", a transfer that passes the checks: currentTime :=
\* time.Now() and the first assignment, currentAccount.Balance -= amount
ProcTransferMoney(i, r, amount) ==
    /\ proc[i].pc.main = "session"
    /\ TransferError(proc[i].bank, proc[i].currentAccount, r, amount) = ""
    /\ clock < MaxClock
    /\ proc' = [proc EXCEPT
                   ![i].bank = TransferDebit(@, proc[i].currentAccount, amount),
                   ![i].xfer = [receiver |-> r, amount |-> amount, currentTime |-> clock],
                   ![i].pc.main = "credit"]
    /\ clock' = clock + 1
    /\ UNCHANGED <<lockFile, dbFile, lastSave, ledgerVarsButClock>>

\* receiver.Balance += amount
ProcTransferCredit(i) ==
    /\ proc[i].pc.main = "credit"
    /\ proc' = [proc EXCEPT
                   ![i].bank = TransferCredit(@, proc[i].xfer.receiver, proc[i].xfer.amount),
                   ![i].pc.main = "debitRecord"]
    /\ UNCHANGED <<lockFile, dbFile, lastSave, ledgerVars>>

\* currentAccount.Transactions = append(...)
ProcTransferDebitRecord(i) ==
    /\ proc[i].pc.main = "debitRecord"
    /\ proc' = [proc EXCEPT
                   ![i].bank = TransferDebitRecord(@, proc[i].currentAccount,
                                   proc[i].xfer.receiver, proc[i].xfer.amount,
                                   proc[i].xfer.currentTime),
                   ![i].pc.main = "creditRecord"]
    /\ UNCHANGED <<lockFile, dbFile, lastSave, ledgerVars>>

\* receiver.Transactions = append(...), and transferMoney returns
ProcTransferCreditRecord(i) ==
    /\ proc[i].pc.main = "creditRecord"
    /\ proc' = [proc EXCEPT
                   ![i].bank = TransferCreditRecord(@, proc[i].currentAccount,
                                   proc[i].xfer.receiver, proc[i].xfer.amount,
                                   proc[i].xfer.currentTime),
                   ![i].xfer = NoXfer,
                   ![i].pc.main = "session"]
    /\ UNCHANGED <<lockFile, dbFile, lastSave, ledgerVars>>

\* a saveData call that starts after the other goroutine's call has returned
\* disturbs what that call saved
Disturbed(i, other) ==
    IF proc[i].pc[other] = "exit" THEN [lastSave EXCEPT !.clean = FALSE] ELSE lastSave

\* main menu "3": saveData() is called by the main goroutine
MenuExit(i) ==
    /\ proc[i].pc.main = "running"
    /\ proc' = [proc EXCEPT ![i].pc.main = "marshal"]
    /\ lastSave' = Disturbed(i, "sig")
    /\ UNCHANGED <<lockFile, dbFile, ledgerVars>>

\* <-c: the signal goroutine receives SIGINT or SIGTERM and calls saveData()
Signal(i) ==
    /\ proc[i].pc.sig = "wait"
    /\ proc' = [proc EXCEPT ![i].pc.sig = "marshal"]
    /\ lastSave' = Disturbed(i, "main")
    /\ UNCHANGED <<lockFile, dbFile, ledgerVars>>

\* data, err := json.MarshalIndent(bank, "", "\t"), taken between two
\* statements of the main goroutine
SaveMarshal(i, g) ==
    /\ proc[i].pc[g] = "marshal"
    /\ proc' = [proc EXCEPT ![i].data[g] = Marshal(proc[i].bank),
                            ![i].pc[g] = "truncate"]
    /\ UNCHANGED <<lockFile, dbFile, lastSave, ledgerVars>>

\* err = db.Truncate(0); on a closed file it returns an error, and the error
\* is overwritten by the next assignment to err
SaveTruncate(i, g) ==
    /\ proc[i].pc[g] = "truncate"
    /\ dbFile' = IF proc[i].open THEN << >> ELSE dbFile
    /\ proc' = [proc EXCEPT ![i].failed[g] = @ \/ ~proc[i].open,
                            ![i].pc[g] = "seek"]
    /\ UNCHANGED <<lockFile, lastSave, ledgerVars>>

\* db.Truncate(0) returns an I/O error on the open file
SaveTruncateError(i, g) ==
    /\ proc[i].pc[g] = "truncate"
    /\ proc[i].open
    /\ proc' = [proc EXCEPT ![i].failed[g] = TRUE, ![i].pc[g] = "seek"]
    /\ UNCHANGED <<lockFile, dbFile, lastSave, ledgerVars>>

\* _, err = db.Seek(0, io.SeekStart); its error is overwritten too
SaveSeek(i, g) ==
    /\ proc[i].pc[g] = "seek"
    /\ proc' = [proc EXCEPT ![i].offset = IF proc[i].open THEN 0 ELSE @,
                            ![i].failed[g] = @ \/ ~proc[i].open,
                            ![i].pc[g] = "write"]
    /\ UNCHANGED <<lockFile, dbFile, lastSave, ledgerVars>>

\* db.Seek returns an I/O error on the open file: the offset stays
SaveSeekError(i, g) ==
    /\ proc[i].pc[g] = "seek"
    /\ proc[i].open
    /\ proc' = [proc EXCEPT ![i].failed[g] = TRUE, ![i].pc[g] = "write"]
    /\ UNCHANGED <<lockFile, dbFile, lastSave, ledgerVars>>

\* _, err = db.Write(data); on an error panic(err) ends the process
SaveWrite(i, g) ==
    /\ proc[i].pc[g] = "write"
    /\ IF proc[i].open
       THEN /\ dbFile' = WriteAt(dbFile, proc[i].offset, proc[i].data[g])
            /\ proc' = [proc EXCEPT ![i].offset = @ + 1, ![i].wrote[g] = TRUE,
                                    ![i].pc[g] = "close"]
       ELSE /\ proc' = [proc EXCEPT ![i] = ProcOff("panic: file already closed")]
            /\ UNCHANGED dbFile
    /\ UNCHANGED <<lockFile, lastSave, ledgerVars>>

\* db.Write returns an I/O error on the open file, nothing written
SaveWriteError(i, g) ==
    /\ proc[i].pc[g] = "write"
    /\ proc[i].open
    /\ proc' = [proc EXCEPT ![i] = ProcOff("panic: write error")]
    /\ UNCHANGED <<lockFile, dbFile, lastSave, ledgerVars>>

\* _ = db.Close()
SaveClose(i, g) ==
    /\ proc[i].pc[g] = "close"
    /\ proc' = [proc EXCEPT ![i].open = FALSE, ![i].pc[g] = "remove"]
    /\ UNCHANGED <<lockFile, dbFile, lastSave, ledgerVars>>

\* _ = os.Remove("db.json.lock"), whoever created the file; saveData returns
SaveRemoveLock(i, g) ==
    /\ proc[i].pc[g] = "remove"
    /\ lockFile' = FALSE
    /\ lastSave' = [done |-> TRUE,
                    clean |-> /\ ~proc[i].failed[g]
                              /\ \A other \in Goroutines \ {g} : ~InSaveData(i, other),
                    doc |-> proc[i].data[g]]
    /\ proc' = [proc EXCEPT ![i].data[g] = <<>>, ![i].pc[g] = "exit"]
    /\ UNCHANGED <<dbFile, ledgerVars>>

\* os.Exit(0) after the menu's saveData, os.Exit(1) after the goroutine's
Exit(i, g) ==
    /\ proc[i].pc[g] = "exit"
    /\ proc' = [proc EXCEPT ![i] = ProcOff(IF g = "main" THEN "exit 0" ELSE "exit 1")]
    /\ UNCHANGED <<lockFile, dbFile, lastSave, ledgerVars>>

NextProc ==
    \/ \E i \in Procs : Start(i)
    \/ \E i \in Procs : Load(i)
    \/ \E i \in Procs : SignalBeforeNotify(i)
    \/ \E i \in Procs, u \in ProcUsernames : ProcCreateAccount(i, u)
    \/ \E i \in Procs, u \in ProcUsernames : ProcCreateAccountFault(i, u)
    \/ \E i \in Procs : MenuExit(i)
    \/ \E i \in Procs : Signal(i)
    \/ \E i \in Procs, g \in Goroutines : SaveMarshal(i, g)
    \/ \E i \in Procs, g \in Goroutines : SaveTruncate(i, g)
    \/ \E i \in Procs, g \in Goroutines : SaveSeek(i, g)
    \/ \E i \in Procs, g \in Goroutines : SaveWrite(i, g)
    \/ \E i \in Procs, g \in Goroutines : SaveClose(i, g)
    \/ \E i \in Procs, g \in Goroutines : SaveRemoveLock(i, g)
    \/ \E i \in Procs, g \in Goroutines : Exit(i, g)

SpecProc == InitProc /\ [][NextProc]_vars

(* C10: at any time at most one running instance holds the store loaded:   *)
(* no sequence of starts, exits and signals puts two processes in their    *)
(* command loops at once, neither of them shutting down.                   *)
InCommandLoop(i) == proc[i].pc.main = "running" /\ proc[i].pc.sig = "wait"

C10_OneInstanceHoldsStore ==
    Cardinality({i \in Procs : InCommandLoop(i)}) <= 1

\* a start while the lock file exists is refused
StartRefusedWhileLocked ==
    [][\A i \in Procs : (Start(i) /\ lockFile) => ~Alive(i)']_vars

----------------------------------------------------------------------------
(* SpecSave: a file-backed process from loadData to os.Exit, and the       *)
(* process started next: the command loop of the first with accounts, a    *)
(* session and transferMoney statement by statement, its signal goroutine, *)
(* saveData with the storage errors its calls can return, and the          *)
(* loadData of the second.                                                 *)

FirstProc == "p1"
SecondProc == "p2"
SaveAmounts == {600}

InitSave == InitProc

\* the first process is started once, the second once the first has ended
StartFirst == proc[FirstProc].exit = "none" /\ Start(FirstProc)
StartSecond ==
    /\ ~Alive(FirstProc)
    /\ proc[FirstProc].exit \notin {"none", "panic: database lock present"}
    /\ Start(SecondProc)

NextSave ==
    \/ StartFirst
    \/ StartSecond
    \/ \E i \in Procs : Load(i)
    \/ \E i \in Procs : SignalBeforeNotify(i)
    \/ \E u \in Usernames : ProcCreateAccount(FirstProc, u)
    \/ \E u \in Usernames : ProcCreateAccountFault(FirstProc, u)
    \/ \E u \in Usernames : ProcLogin(FirstProc, u)
    \/ ProcLogout(FirstProc)
    \/ \E r \in Usernames, a \in SaveAmounts : ProcTransferMoney(FirstProc, r, a)
    \/ ProcTransferCredit(FirstProc)
    \/ ProcTransferDebitRecord(FirstProc)
    \/ ProcTransferCreditRecord(FirstProc)
    \/ MenuExit(FirstProc)
    \/ Signal(FirstProc)
    \/ \E g \in Goroutines : SaveMarshal(FirstProc, g)
    \/ \E g \in Goroutines : SaveTruncate(FirstProc, g)
    \/ \E g \in Goroutines : SaveTruncateError(FirstProc, g)
    \/ \E g \in Goroutines : SaveSeek(FirstProc, g)
    \/ \E g \in Goroutines : SaveSeekError(FirstProc, g)
    \/ \E g \in Goroutines : SaveWrite(FirstProc, g)
    \/ \E g \in Goroutines : SaveWriteError(FirstProc, g)
    \/ \E g \in Goroutines : SaveClose(FirstProc, g)
    \/ \E g \in Goroutines : SaveRemoveLock(FirstProc, g)
    \/ \E g \in Goroutines : Exit(FirstProc, g)

SpecSave == InitSave /\ [][NextSave]_vars

\* the main goroutine is between two assignments of transferMoney
MidTransfer(i) == proc[i].pc.main \in {"credit", "debitRecord", "creditRecord"}

(* C11: on both shutdown paths, menu Exit and a signal, the process runs   *)
(* saveData before it terminates, and the file then holds the effect of    *)
(* every operation that completed in memory before the process ended.      *)
C11_ShutdownSavesEveryOperation ==
    [][\A i \in Procs :
          /\ MenuExit(i) => InSaveData(i, "main")'
          /\ Signal(i) => InSaveData(i, "sig")'
          /\ \A g \in Goroutines :
                (Exit(i, g) /\ ~MidTransfer(i)) => Decode(dbFile) = proc[i].bank]_vars

\* every transfer recorded in b has all of its four effects: each balance is
\* the closingBalance of the account's newest record (the joining bonus
\* without records), and each debit to r has its credit in r
TransfersWhole(b) ==
    /\ \A u \in DOMAIN b :
          b[u].Balance = IF b[u].Transactions = <<>> THEN JoiningBonus
                         ELSE Head(b[u].Transactions).ClosingBalance
    /\ \A u \in DOMAIN b : \A k \in 1..Len(b[u].Transactions) :
          LET d == b[u].Transactions[k]
          IN  (d.Type = "D" /\ d.Counterparty # "") =>
                  /\ d.Counterparty \in DOMAIN b
                  /\ \E j \in 1..Len(b[d.Counterparty].Transactions) :
                        LET c == b[d.Counterparty].Transactions[j]
                        IN  /\ c.Type = "C" /\ c.Counterparty = u
                            /\ c.Time = d.Time /\ c.Amount = d.Amount

(* C12: what the signal goroutine serializes, and so what db.json holds,   *)
(* never has a transfer with only some of its four effects.                *)
C12_SignalSaveSeesWholeTransfers ==
    /\ [][\A i \in Procs :
            SaveMarshal(i, "sig") => TransfersWhole(DecodeDoc(proc'[i].data.sig))]_vars
    /\ [](\A k \in 1..Len(dbFile) :
            ~dbFile[k].hole => TransfersWhole(DecodeDoc(dbFile[k].doc)))

(* C13: saveData runs at most once in the life of a process: the save of   *)
(* the signal goroutine and the save of menu Exit never both run.          *)
C13_SaveDataRunsOnce ==
    \A i \in Procs : ~(InSaveData(i, "main") /\ InSaveData(i, "sig"))

(* C14: a saveData in which the truncation, the seek or the write of       *)
(* db.json failed does not go on to close the file, remove the lock and    *)
(* exit as after a save that succeeded.                                    *)
C14_StorageFailureIsFatal ==
    [][\A i \in Procs, g \in Goroutines :
          (SaveClose(i, g) \/ SaveRemoveLock(i, g) \/ Exit(i, g)) =>
              ~proc[i].failed[g]]_vars

\* of the three calls, a failed db.Write is fatal
WriteFailureIsFatal ==
    [][\A i \in Procs, g \in Goroutines :
          (SaveWriteError(i, g) \/ (SaveWrite(i, g) /\ ~proc[i].open)) =>
              /\ ~Alive(i)'
              /\ proc'[i].exit \notin {"exit 0", "exit 1"}
              /\ UNCHANGED <<lockFile, dbFile>>]_vars

\* the same usernames and, for each, the same balance and transaction list
SameLedger(b1, b2) ==
    /\ DOMAIN b1 = DOMAIN b2
    /\ \A u \in DOMAIN b1 :
          /\ b1[u].Balance = b2[u].Balance
          /\ b1[u].Transactions = b2[u].Transactions

(* C15: after a saveData that completed in one process, loadData in the    *)
(* next process yields the store as it was serialized: the same usernames, *)
(* balances and transaction lists in the same order; on an empty db.json   *)
(* loadData yields an empty store and the process goes on.                 *)
C15_SaveLoadRoundTrip ==
    [][\A i \in Procs :
          Load(i) =>
              /\ lastSave.done => SameLedger(proc'[i].bank, DecodeDoc(lastSave.doc))
              /\ dbFile = << >> =>
                    (proc'[i].bank = << >> /\ proc'[i].pc.main = "running")]_vars

\* the same after a process that ran saveData once, with no storage error
RoundTripAfterOneCleanSave ==
    [][\A i \in Procs :
          Load(i) =>
              /\ (lastSave.done /\ lastSave.clean) =>
                    SameLedger(proc'[i].bank, DecodeDoc(lastSave.doc))
              /\ dbFile = << >> =>
                    (proc'[i].bank = << >> /\ proc'[i].pc.main = "running")]_vars

(* C18: when a saveData completes, on either shutdown path, the lock file  *)
(* is gone and was removed only after the store was written; the instance  *)
(* started next gets the lock and loads the state that was saved.          *)
C18_SaveReleasesLockForNextStart ==
    [][\A i \in Procs :
          /\ \A g \in Goroutines :
                SaveRemoveLock(i, g) => (~lockFile' /\ proc[i].wrote[g])
          /\ (Start(i) /\ lastSave.done) => proc'[i].pc.main = "load"
          /\ (Load(i) /\ lastSave.done) =>
                proc'[i].bank = DecodeDoc(lastSave.doc)]_vars

\* the same after a process that ran saveData once, with no storage error
LockReleasedAfterOneCleanSave ==
    [][\A i \in Procs :
          /\ \A g \in Goroutines :
                SaveRemoveLock(i, g) => (~lockFile' /\ proc[i].wrote[g])
          /\ (Start(i) /\ lastSave.done) => proc'[i].pc.main = "load"
          /\ (Load(i) /\ lastSave.done /\ lastSave.clean) =>
                proc'[i].bank = DecodeDoc(lastSave.doc)]_vars

====
